---------------------------- MODULE Spec2Model ----------------------------
(***************************************************************************)
(* Verification model of the real-estate observability service.           *)
(*                                                                         *)
(* Part I  - the request router: the inline Lambda handler of             *)
(*           my-cdk-app/lib/my-cdk-app-stack.ts and the API Gateway        *)
(*           methods registered in front of it.                            *)
(* Part II - the property repository on top of the DynamoDB table and the *)
(*           two global secondary indexes of                               *)
(*           infrastructure/lib/stacks/database-stack.ts.                  *)
(* Part III - the cash-flow engine behind the calculateCashFlowFunction of *)
(*           infrastructure/lib/stacks/api-stack.ts.                       *)
(* Part IV - the health reporter and the time bound of a function of       *)
(*           infrastructure/lib/constructs/lambda-function.ts.             *)
(* Part V  - the deployment script scripts/deploy.sh.                      *)
(* Part VI - the CDK app infrastructure/bin/app.ts and the stacks it and   *)
(*           its configuration build.                                      *)
(***************************************************************************)
EXTENDS Integers, Sequences, FiniteSets, TLC

VARIABLES
    now,          \* the wall clock (datetime.now / the store's timestamps)
    \* ---- Part I: one invocation of the inline handler
    event,        \* the inbound Lambda event: a mapping of field name to value
    pc,           \* position of the handler in its code
    method,       \* local variable `method` of the handler
    path,         \* local variable `path` of the handler
    executed,     \* route branches whose body ran in this invocation
    phases,       \* request phases this invocation went through, in order
    responses,    \* the responses the handler returned for this event
    invocations,  \* number of invocations so far
    \* ---- Part II: the property repository and its store
    table,          \* the items of the properties table
    statusIndex,    \* the items as the StatusIndex currently holds them
    statusPending,  \* writes the StatusIndex has not applied yet
    locationIndex,  \* the items as the LocationIndex currently holds them
    locationPending, \* writes the LocationIndex has not applied yet
    hashOrder,      \* the order in which the store places the partitions
    generated,      \* number of ids the repository has generated
    lastOp,         \* the last repository operation and what it returned
    session,        \* the List call sequence in progress (pages, cursor)
    \* ---- Part III: the cash-flow engine
    cashFlowRequest, \* the request the engine was last called with
    cashFlowResult,  \* what the engine returned for it
    \* ---- Part IV: a request that waits for the store
    callKind,     \* what waits: the health probe or a repository operation
    callPhase,    \* idle, pending (waiting for the store), done, responded
    callOutcome,  \* how the store call ended: answered, failed, expired
    callElapsed,  \* seconds the store call has been pending
    reply,        \* the response of the request
    \* ---- Part V: one run of scripts/deploy.sh
    dpc,          \* position of the script
    arguments,    \* the arguments the script was started with
    ENVIRONMENT,  \* shell variable ENVIRONMENT
    SKIP_TESTS,   \* shell variable SKIP_TESTS
    AUTO_APPROVE, \* shell variable AUTO_APPROVE
    REPLY,        \* shell variable REPLY, set by read
    commands,     \* the aws, cdk, pytest and read commands the run has executed
    \* ---- Part VI: one run of the CDK app
    appPc,        \* position of the app
    contextValue, \* the context value 'environment' the app was started with
    processEnv,   \* process.env.ENVIRONMENT
    layerDirectory, \* what the file system holds at the lambda-layer path
    environment,  \* const environment of app.ts
    config,       \* const config of app.ts
    stacks,       \* the stacks constructed under the app: id and config
    constructs,   \* the constructs defined in the API stack
    routes,       \* the methods of the REST API and the handler behind each
    thrown,       \* the message of the error the app ended with
    propertiesTable \* the table a DatabaseStack defines

routerVars == <<event, pc, method, path, executed, phases, responses, invocations>>
indexVars == <<statusIndex, statusPending, locationIndex, locationPending>>
repoVars == <<table, indexVars, hashOrder, generated, lastOp, session>>
engineVars == <<cashFlowRequest, cashFlowResult>>
timedVars == <<callKind, callPhase, callOutcome, callElapsed, reply>>
deployVars == <<dpc, arguments, ENVIRONMENT, SKIP_TESTS, AUTO_APPROVE, REPLY, commands>>
cdkVars == <<appPc, contextValue, processEnv, layerDirectory, environment,
             config, stacks, constructs, routes, thrown, propertiesTable>>
otherVars == <<engineVars, timedVars, deployVars, cdkVars>>
vars == <<now, routerVars, repoVars, otherVars>>

(***************************************************************************)
(* Bounds of the model.                                                    *)
(***************************************************************************)
MaxClock == 2
MaxInvocations == 2
MaxItems == 2        \* items the table holds at most
MaxGenerated == 1    \* ids the repository generates at most
MaxLimit == 2        \* largest page limit a List call asks for
MaxLag == 1          \* writes an index is behind the table at most
MaxArguments == 3    \* words of a command line at most

(***************************************************************************)
(*                        Part I - request router                          *)
(***************************************************************************)

\* A path is the sequence of its segments: "/" is <<>>, "/health" is
\* <<"health">>, "/health/" is <<"health", "">>.
RootPath == <<>>
HealthPath == <<"health">>
PropertiesPath == <<"properties">>

Methods == {"GET", "POST", "DELETE"}
Paths == {RootPath, HealthPath, PropertiesPath,
          <<"health", "">>, <<"properties", "p1">>, <<"unknown">>,
          <<"api", "v1", "calculate", "cash-flow">>}

\* Every event the Lambda can be invoked with: httpMethod and path are each
\* present or absent; a POST to /properties may carry a body.
EmptyEvent == [k \in {} |-> ""]

\* Request bodies (the JSON object of a POST, as a mapping of field name to
\* value): a negative price alone, with an undefined status, and a valid one.
Bodies ==
    { [price |-> -100],
      [price |-> -100, status |-> "unknown"],
      [price |-> 100, status |-> "active"] }

Events ==
    {EmptyEvent}
      \cup { [httpMethod |-> m] : m \in Methods }
      \cup { [path |-> p] : p \in Paths }
      \cup { [httpMethod |-> m, path |-> p] : m \in Methods, p \in Paths }
      \cup { [httpMethod |-> "POST", path |-> PropertiesPath, body |-> b] :
               b \in Bodies }

\* The methods API Gateway registers on its resources, all integrated with
\* the handler: the dispatch table's (method, path) pairs.
RegisteredMethods ==
    { <<"GET", RootPath>>, <<"GET", HealthPath>>, <<"GET", PropertiesPath>> }

RoutePaths == { r[2] : r \in RegisteredMethods }

Range(f) == { f[x] : x \in DOMAIN f }

\* Headers of a plain-text response (for comparison).
PlainHeaders == [ContentType |-> "text/plain"]

JsonHeaders == [ContentType |-> "application/json"]

\* json.dumps of a str value gives a JSON string, of a dict a JSON object.
JsonString(text) == [json |-> "string", value |-> text]

\* The methods the API stack registers on its resources and the Lambda
\* integration each is given.
ApiStackIntegration ==
    [pair \in { <<"GET", HealthPath>>, <<"GET", RootPath>>,
                <<"POST", <<"api", "v1", "calculate", "cash-flow">> >> } |->
        IF pair[1] = "POST" THEN "calculateCashFlowIntegration"
                            ELSE "healthCheckIntegration"]

\* "# Simple routing": the chain of if statements of the handler.
RouteOfPrefix(m, p) ==
    IF m = "GET" /\ p = RootPath THEN "root"
    ELSE IF m = "GET" /\ p = HealthPath THEN "health"
    ELSE IF m = "GET" /\ Len(p) >= 1 /\ SubSeq(p, 1, 1) = PropertiesPath
         THEN "properties"
    ELSE "not_found"

Route(m, p) ==
    IF m = "GET" /\ p = RootPath THEN "root"
    ELSE IF m = "GET" /\ p = HealthPath THEN "health"
    ELSE IF m = "GET" /\ p = PropertiesPath THEN "properties"
    ELSE "not_found"

\* The response each branch returns.
RootResponse(t) ==
    [statusCode |-> 200, headers |-> JsonHeaders,
     body |-> [message |-> "Welcome to Real Estate Observability API",
               timestamp |-> t]]

HealthResponse(t) ==
    [statusCode |-> 200, headers |-> JsonHeaders,
     body |-> [status |-> "healthy", timestamp |-> t]]

PropertiesResponse ==
    [statusCode |-> 200, headers |-> JsonHeaders,
     body |-> [properties |->
                 << [id |-> 1, address |-> "123 Main St", price |-> 500000],
                    [id |-> 2, address |-> "456 Oak Ave", price |-> 750000] >>]]

NotFoundResponse ==
    [statusCode |-> 404, headers |-> JsonHeaders,
     body |-> [error |-> JsonString("Not found")]]

BranchResponse(branch, t) ==
    CASE branch = "root" -> RootResponse(t)
      [] branch = "health" -> HealthResponse(t)
      [] branch = "properties" -> PropertiesResponse

\* The phase of the request state machine a code position belongs to.
Phase(p) ==
    CASE p = "entry" -> "Received"
      [] p = "route" -> "Validating"
      [] p \in {"root", "health", "properties"} -> "Executing"
      [] p = "not_found" -> "Rejected"
      [] p = "returned" -> "Responding"
      [] p = "raised" -> "Failed"
      [] OTHER -> "Idle"

RouterInit ==
    /\ event = EmptyEvent
    /\ pc = "idle"
    /\ method = ""
    /\ path = << >>
    /\ executed = {}
    /\ phases = << >>
    /\ responses = << >>
    /\ invocations = 0

\* The Lambda runtime calls handler(event, context).
Invoke(e) ==
    /\ pc \in {"idle", "returned", "raised"}
    /\ invocations < MaxInvocations
    /\ event' = e
    /\ pc' = "entry"
    /\ method' = ""
    /\ path' = << >>
    /\ executed' = {}
    /\ phases' = << Phase("entry") >>
    /\ responses' = << >>
    /\ invocations' = invocations + 1
    /\ UNCHANGED <<now, repoVars, otherVars>>

\* method = event['httpMethod']; path = event['path']: a missing key raises
\* KeyError, which nothing catches.
ReadEvent ==
    /\ pc = "entry"
    /\ IF "httpMethod" \in DOMAIN event /\ "path" \in DOMAIN event
       THEN /\ method' = event["httpMethod"]
            /\ path' = event["path"]
            /\ pc' = "route"
       ELSE /\ IF "httpMethod" \in DOMAIN event
               THEN method' = event["httpMethod"]
               ELSE UNCHANGED method
            /\ UNCHANGED path
            /\ pc' = "raised"
    /\ phases' = Append(phases, Phase(pc'))
    /\ UNCHANGED <<now, repoVars, otherVars, event, executed, responses, invocations>>

\* The if chain selects a branch, or falls through to the final return.
Dispatch ==
    /\ pc = "route"
    /\ pc' = Route(method, path)
    /\ phases' = Append(phases, Phase(pc'))
    /\ UNCHANGED <<now, repoVars, otherVars, event, method, path, executed, responses, invocations>>

\* The body of a matched branch: builds the body and returns it.
RunBranch ==
    /\ pc \in {"root", "health", "properties"}
    /\ executed' = executed \cup {pc}
    /\ responses' = Append(responses, BranchResponse(pc, now))
    /\ pc' = "returned"
    /\ phases' = Append(phases, Phase(pc'))
    /\ UNCHANGED <<now, repoVars, otherVars, event, method, path, invocations>>

\* The final return of the handler.
ReturnNotFound ==
    /\ pc = "not_found"
    /\ responses' = Append(responses, NotFoundResponse)
    /\ pc' = "returned"
    /\ phases' = Append(phases, Phase(pc'))
    /\ UNCHANGED <<now, repoVars, otherVars, event, method, path, executed, invocations>>

(***************************************************************************)
(*                     Part II - property repository                       *)
(***************************************************************************)

\* ---- the data model -----------------------------------------------------

NoId == 0                       \* the empty id: no id supplied, nothing found
CallerIds == {1, 2}             \* ids a caller supplies
GeneratedIds == { -k : k \in 1..MaxGenerated }   \* ids the repository assigns
AllIds == CallerIds \cup GeneratedIds

Statuses == {"active", "sold"}

\* The descriptive attributes a caller sends with a Create.
Listing == [status |-> "active", location |-> "tokyo", price |-> 2]

SoldListing == [status |-> "sold", location |-> "tokyo", price |-> 1]

Listings ==
    { Listing, SoldListing,
      [status |-> "active", location |-> "osaka", price |-> 1] }

NoItem ==
    [id |-> NoId, createdAt |-> 0, updatedAt |-> 0,
     status |-> "", location |-> "", price |-> 0]

\* ---- the properties table -----------------------------------------------

\* A table keyed by id alone (for comparison).
KeyAttributesIdOnly == {"id"}

\* partitionKey id, sortKey createdAt: together the primary key of an item.
KeyAttributes == {"id", "createdAt"}

KeyOf(item) == <<item.id, item.createdAt>>

Keys(items) == { KeyOf(i) : i \in items }

\* The place of a partition in the store: the position of its partition key
\* in the store's internal (hash) order, which the application cannot choose.
HashRank(id) == CHOOSE n \in 1..Len(hashOrder) : hashOrder[n] = id

\* The store places a partition when its first item is written: anywhere
\* among the partitions it holds.
Placed(order, id) ==
    IF \E n \in 1..Len(order) : order[n] = id
    THEN {order}
    ELSE { SubSeq(order, 1, n) \o <<id>> \o SubSeq(order, n + 1, Len(order)) :
             n \in 0..Len(order) }

\* A position that forgets the sort key (for comparison).
TablePositionNoSortKey(item) == << HashRank(item.id) >>

\* The place of an item in the table: its partition, then its sort key.

TablePosition(item) == << HashRank(item.id), item.createdAt >>

\* A status index sorted on price instead of updatedAt (for comparison).
StatusIndexPositionByPrice(item) ==
    << 0 - item.price >> \o TablePosition(item)

\* StatusIndex: partition key status, sort key updatedAt; a query reads it
\* backwards (most recent first).  Equal sort keys are told apart by the
\* item's primary key.

StatusIndexPosition(item) == << 0 - item.updatedAt >> \o TablePosition(item)

\* LocationIndex: partition key location, sort key price, read forwards.
LocationIndexPosition(item) == << item.price >> \o TablePosition(item)

Position(plan, item) ==
    CASE plan = "StatusIndex" -> StatusIndexPosition(item)
      [] plan = "LocationIndex" -> LocationIndexPosition(item)
      [] plan = "Scan" -> TablePosition(item)

\* Lexicographic order of two positions of the same length.
LexLess(a, b) ==
    \E i \in 1..Len(a) :
        /\ \A j \in 1..(i - 1) : a[j] = b[j]
        /\ a[i] < b[i]

RECURSIVE InOrder(_, _)
\* The items of a set in the order of their positions.
InOrder(items, plan) ==
    IF items = {} THEN << >>
    ELSE LET first == CHOOSE x \in items :
                         \A y \in items :
                            ~LexLess(Position(plan, y), Position(plan, x))
         IN << first >> \o InOrder(items \ {first}, plan)

\* PutItem with the condition that no item with this primary key exists.
CanPut(items, item) == KeyOf(item) \notin Keys(items)

\* A read that takes every item for the partition asked (for comparison).
ItemsOfAnyId(items, id) == items

\* Query of the table by partition key.
ItemsWithId(items, id) == { i \in items : i.id = id }

\* UpdateItem: key attributes cannot be updated; the request is refused.
UpdateAccepted(changes) == DOMAIN changes \cap KeyAttributes = {}

Updated(item, changes) ==
    [a \in DOMAIN item |-> IF a \in DOMAIN changes THEN changes[a] ELSE item[a]]

\* ---- the repository operations ------------------------------------------

\* A write to the table is handed to both indexes, which apply it later;
\* an index that is MaxLag writes behind applies its oldest write first.
Applied(index, item) ==
    { i \in index : KeyOf(i) # KeyOf(item) } \cup {item}

Handed(index, pending, item) ==
    IF Len(pending) < MaxLag
    THEN [index |-> index, pending |-> Append(pending, item)]
    ELSE [index |-> Applied(index, Head(pending)),
          pending |-> Append(Tail(pending), item)]

Written(item) ==
    /\ statusIndex' = Handed(statusIndex, statusPending, item).index
    /\ statusPending' = Handed(statusIndex, statusPending, item).pending
    /\ locationIndex' = Handed(locationIndex, locationPending, item).index
    /\ locationPending' = Handed(locationIndex, locationPending, item).pending

\* op: the operation; ok: whether it succeeded; item: the item it wrote or
\* returned; created: for a Get, the item the Create right before it wrote
\* under the same id (NoItem when no such Create came right before).
NoOp == [op |-> "none", ok |-> FALSE, item |-> NoItem, created |-> NoItem]

\* The next id the repository assigns; never one it assigned before, never
\* one a caller supplies.
NewId == 0 - (generated + 1)

\* Create(property) -> id: assigns id when absent and createdAt/updatedAt
\* from the clock, and writes the item unless the store refuses the write
\* because the key exists (Conflict).
Create(idIn, attrs) ==
    /\ Cardinality(table) < MaxItems
    /\ idIn = NoId => generated < MaxGenerated
    /\ LET id == IF idIn # NoId THEN idIn ELSE NewId
           item == [id |-> id, createdAt |-> now, updatedAt |-> now,
                    status |-> attrs.status, location |-> attrs.location,
                    price |-> attrs.price]
       IN IF CanPut(table, item)
          THEN /\ table' = table \cup {item}
               /\ hashOrder' \in Placed(hashOrder, id)
               /\ Written(item)
               /\ lastOp' = [op |-> "Create", ok |-> TRUE, item |-> item,
                             created |-> NoItem]
          ELSE /\ UNCHANGED <<table, hashOrder, indexVars>>
               /\ lastOp' = [op |-> "Create", ok |-> FALSE, item |-> item,
                             created |-> NoItem]
    /\ generated' = IF idIn = NoId THEN generated + 1 ELSE generated
    /\ UNCHANGED <<now, otherVars, routerVars, session>>

\* The patches a caller sends with an Update.
Patches ==
    { [status |-> "sold"],
      [price |-> 1, createdAt |-> MaxClock] }

\* Update(id, patch) -> Property | NotFound: refreshes updatedAt and changes
\* the supplied fields of the item stored under the id.
Update(id, patch) ==
    /\ LET found == ItemsWithId(table, id)
           changes == [a \in DOMAIN patch \cup {"updatedAt"} |->
                          IF a = "updatedAt" THEN now ELSE patch[a]]
       IN IF found = {}
          THEN /\ UNCHANGED <<table, indexVars>>
               /\ lastOp' = [op |-> "Update", ok |-> FALSE, item |-> NoItem,
                             created |-> NoItem]
          ELSE \E target \in found :
                  IF UpdateAccepted(changes)
                  THEN /\ table' = (table \ {target})
                                      \cup {Updated(target, changes)}
                       /\ Written(Updated(target, changes))
                       /\ lastOp' = [op |-> "Update", ok |-> TRUE,
                                     item |-> Updated(target, changes),
                                     created |-> NoItem]
                  ELSE /\ UNCHANGED <<table, indexVars>>
                       /\ lastOp' = [op |-> "Update", ok |-> FALSE,
                                     item |-> target, created |-> NoItem]
    /\ UNCHANGED <<now, otherVars, routerVars, hashOrder, generated, session>>

\* Get(id) -> Property | NotFound: a consistent read of the table by
\* partition key; the table may hold several items under one partition key.
Get(id) ==
    /\ LET found == ItemsWithId(table, id)
           created == IF lastOp.op = "Create" /\ lastOp.ok
                         /\ lastOp.item.id = id
                      THEN lastOp.item ELSE NoItem
       IN IF found = {}
          THEN lastOp' = [op |-> "Get", ok |-> FALSE, item |-> NoItem,
                          created |-> created]
          ELSE \E it \in found :
                  lastOp' = [op |-> "Get", ok |-> TRUE, item |-> it,
                             created |-> created]
    /\ UNCHANGED <<now, otherVars, routerVars, table, indexVars, hashOrder, generated,
                   session>>

\* An index follows the table asynchronously: it applies the writes of an
\* item in their order, the writes of different items in any order.
Ready(pending) ==
    { n \in 1..Len(pending) :
        \A m \in 1..(n - 1) : KeyOf(pending[m]) # KeyOf(pending[n]) }

Without(pending, n) ==
    SubSeq(pending, 1, n - 1) \o SubSeq(pending, n + 1, Len(pending))

ReplicateStatusIndex ==
    /\ \E n \in Ready(statusPending) :
          /\ statusIndex' = Applied(statusIndex, statusPending[n])
          /\ statusPending' = Without(statusPending, n)
    /\ UNCHANGED <<now, otherVars, routerVars, table, locationIndex, locationPending,
                   hashOrder, generated, lastOp, session>>

ReplicateLocationIndex ==
    /\ \E n \in Ready(locationPending) :
          /\ locationIndex' = Applied(locationIndex, locationPending[n])
          /\ locationPending' = Without(locationPending, n)
    /\ UNCHANGED <<now, otherVars, routerVars, table, statusIndex, statusPending,
                   hashOrder, generated, lastOp, session>>

\* ---- List ---------------------------------------------------------------

NoRange == << >>
NoFilter == [status |-> "", location |-> "", priceRange |-> NoRange]

Filters ==
    [status : Statuses \cup {""}, location : {"", "tokyo"},
     priceRange : {NoRange, <<1, 1>>}]

Limits == 1..MaxLimit

\* The cursor: the key attributes of the last item a page evaluated.
NoCursor == NoItem

CursorOf(item) ==
    [id |-> item.id, createdAt |-> item.createdAt,
     updatedAt |-> item.updatedAt, price |-> item.price,
     status |-> "", location |-> ""]

NoSession ==
    [open |-> FALSE, filter |-> NoFilter, limit |-> 0, pages |-> << >>,
     cursor |-> NoCursor, snapshot |-> {}, done |-> FALSE]

\* Where the results come from: the status index when status is set, else
\* the location index when location is set, else a scan of the table.
Plan(filter) ==
    IF filter.status # "" THEN "StatusIndex"
    ELSE IF filter.location # "" THEN "LocationIndex"
    ELSE "Scan"

Source(filter) ==
    CASE Plan(filter) = "StatusIndex" ->
            { i \in statusIndex : i.status = filter.status }
      [] Plan(filter) = "LocationIndex" ->
            { i \in locationIndex : i.location = filter.location }
      [] Plan(filter) = "Scan" -> table

InRange(price, range) ==
    range = NoRange \/ (range[1] <= price /\ price <= range[2])

Matches(item, filter) ==
    /\ filter.status # "" => item.status = filter.status
    /\ filter.location # "" => item.location = filter.location
    /\ InRange(item.price, filter.priceRange)

Min(a, b) == IF a <= b THEN a ELSE b

\* One page: the items after the cursor in the order of the source, at most
\* limit of them evaluated, those that pass the remaining filters returned.
FetchPage(filter, limit, cursor) ==
    LET plan == Plan(filter)
        ordered == InOrder(Source(filter), plan)
        After(i) == \/ cursor.id = NoId
                    \/ LexLess(Position(plan, cursor), Position(plan, i))
        remaining == SelectSeq(ordered, After)
        evaluated == SubSeq(remaining, 1, Min(limit, Len(remaining)))
        Passes(i) == Matches(i, filter)
    IN [items |-> SelectSeq(evaluated, Passes),
        nextCursor |-> IF Len(evaluated) = limit
                       THEN CursorOf(evaluated[limit])
                       ELSE NoCursor]

\* List(filter, limit) without a cursor: the first page.
ListFirst(filter, limit) ==
    /\ LET page == FetchPage(filter, limit, NoCursor)
       IN session' = [open |-> TRUE, filter |-> filter, limit |-> limit,
                      pages |-> << page.items >>,
                      cursor |-> page.nextCursor,
                      snapshot |-> Keys(table),
                      done |-> page.nextCursor = NoCursor]
    /\ lastOp' = [op |-> "List", ok |-> TRUE, item |-> NoItem,
                  created |-> NoItem]
    /\ UNCHANGED <<now, otherVars, routerVars, table, indexVars, hashOrder, generated>>

\* List(filter, limit, cursor) with the nextCursor of the page before.
ListNext ==
    /\ session.open
    /\ ~session.done
    /\ LET page == FetchPage(session.filter, session.limit, session.cursor)
       IN session' = [session EXCEPT
                         !.pages = Append(@, page.items),
                         !.cursor = page.nextCursor,
                         !.done = page.nextCursor = NoCursor]
    /\ lastOp' = [op |-> "List", ok |-> TRUE, item |-> NoItem,
                  created |-> NoItem]
    /\ UNCHANGED <<now, otherVars, routerVars, table, indexVars, hashOrder, generated>>

RepoInit ==
    /\ table = {}
    /\ statusIndex = {}
    /\ statusPending = << >>
    /\ locationIndex = {}
    /\ locationPending = << >>
    /\ hashOrder = << >>
    /\ generated = 0
    /\ lastOp = NoOp
    /\ session = NoSession

(***************************************************************************)
(*                      Part III - cash-flow engine                        *)
(***************************************************************************)

\* ---- exact arithmetic ---------------------------------------------------

\* A number is a fraction <<numerator, denominator>>.  A division by zero
\* yields a value with denominator 0: <<0, 0>> is NaN, <<1, 0>> and
\* <<-1, 0>> are the infinities; arithmetic on such a value yields NaN.
Abs(x) == IF x < 0 THEN 0 - x ELSE x

Sign(x) == IF x < 0 THEN 0 - 1 ELSE IF x > 0 THEN 1 ELSE 0

RECURSIVE Gcd(_, _)
Gcd(a, b) == IF b = 0 THEN a ELSE Gcd(b, a % b)

NaN == <<0, 0>>

IsFinite(q) == q[2] # 0

Norm(q) ==
    IF q[2] = 0 THEN <<Sign(q[1]), 0>>
    ELSE LET g == Gcd(Abs(q[1]), Abs(q[2]))
         IN <<(Sign(q[2]) * q[1]) \div g, Abs(q[2]) \div g>>

Whole(n) == <<n, 1>>

RAdd(a, b) ==
    IF IsFinite(a) /\ IsFinite(b)
    THEN Norm(<<a[1] * b[2] + b[1] * a[2], a[2] * b[2]>>) ELSE NaN

RSub(a, b) ==
    IF IsFinite(a) /\ IsFinite(b)
    THEN Norm(<<a[1] * b[2] - b[1] * a[2], a[2] * b[2]>>) ELSE NaN

RMul(a, b) ==
    IF IsFinite(a) /\ IsFinite(b)
    THEN Norm(<<a[1] * b[1], a[2] * b[2]>>) ELSE NaN

RDiv(a, b) ==
    IF IsFinite(a) /\ IsFinite(b)
    THEN Norm(<<a[1] * b[2], a[2] * b[1]>>) ELSE NaN

RECURSIVE RPow(_, _)
RPow(a, n) == IF n = 0 THEN Whole(1) ELSE RMul(a, RPow(a, n - 1))

REq(a, b) == IsFinite(a) /\ IsFinite(b) /\ a[1] * b[2] = b[1] * a[2]

\* Rounding to two decimal places (half up): a number of hundredths.
Round2(q) ==
    IF IsFinite(q) THEN <<(200 * q[1] + q[2]) \div (2 * q[2]), 100>> ELSE q

\* ---- the requests -------------------------------------------------------

\* interestRate is the annual rate as a fraction, loanTerm is in months.
CashFlowRequests ==
    [purchasePrice : {0, 300}, downPayment : {0, 60, 300},
     closingCosts : {0, 10},
     interestRate : {Whole(0), Whole(6)}, loanTerm : {1, 2, 3},
     monthlyRent : {0, 200}, monthlyExpenses : {50}]

NoRequest ==
    [purchasePrice |-> 0, downPayment |-> 0, closingCosts |-> 0,
     interestRate |-> Whole(0), loanTerm |-> 0, monthlyRent |-> 0,
     monthlyExpenses |-> 0]

NoResult == [kind |-> "none"]

InvalidInput == [kind |-> "InvalidInput"]

\* The invariant of a CashFlowRequest.
ValidRequest(req) ==
    /\ req.purchasePrice > 0
    /\ req.downPayment >= 0
    /\ req.downPayment <= req.purchasePrice
    /\ req.interestRate[1] >= 0
    /\ req.loanTerm > 0
    /\ req.monthlyRent >= 0

\* ---- the algorithm ------------------------------------------------------

\* 1. loan principal
Principal(req) == Whole(req.purchasePrice - req.downPayment)

\* 2. monthly interest rate
MonthlyRate(req) == RDiv(req.interestRate, Whole(12))

\* 3. the amortizing-loan formula: principal * r / (1 - (1 + r)^-n)
Amortized(principal, r, n) ==
    RDiv(RMul(principal, r),
         RSub(Whole(1), RDiv(Whole(1), RPow(RAdd(Whole(1), r), n))))

\* The formula applied to every rate (for comparison).
MonthlyPaymentAmortized(req) ==
    Amortized(Principal(req), MonthlyRate(req), req.loanTerm)

\* 3. monthly mortgage payment; rate 0 is handled apart
MonthlyPayment(req) ==
    IF MonthlyRate(req)[1] = 0
    THEN RDiv(Principal(req), Whole(req.loanTerm))
    ELSE Amortized(Principal(req), MonthlyRate(req), req.loanTerm)

\* 4. net operating income (annual)
NetOperatingIncome(req) ==
    Whole(req.monthlyRent * 12 - req.monthlyExpenses * 12)

\* 5. monthly net cash flow
MonthlyNetCashFlow(req) ==
    RSub(RSub(Whole(req.monthlyRent), MonthlyPayment(req)),
         Whole(req.monthlyExpenses))

\* 6. capitalization rate
CapRate(req) == RDiv(NetOperatingIncome(req), Whole(req.purchasePrice))

\* 7. cash-on-cash return
CashOnCash(req) ==
    RDiv(RMul(MonthlyNetCashFlow(req), Whole(12)),
         Whole(req.downPayment + req.closingCosts))

\* A check of the purchase price alone (for comparison).
ZeroPurchasePrice(req) == req.purchasePrice = 0

\* The denominators of steps 6 and 7.
ZeroDenominator(req) ==
    req.purchasePrice = 0 \/ req.downPayment + req.closingCosts = 0

\* The result: monetary amounts rounded at the output boundary only.
Calculated(req) ==
    IF ZeroDenominator(req) THEN InvalidInput
    ELSE [kind |-> "CashFlowResult",
          monthlyPayment |-> Round2(MonthlyPayment(req)),
          monthlyNetCashFlow |-> Round2(MonthlyNetCashFlow(req)),
          annualNetOperatingIncome |-> Round2(NetOperatingIncome(req)),
          capRate |-> CapRate(req),
          cashOnCash |-> CashOnCash(req)]

EngineInit ==
    /\ cashFlowRequest = NoRequest
    /\ cashFlowResult = NoResult

\* One call of the engine: a pure transform of the request.
CalculateCashFlow(req) ==
    /\ cashFlowRequest' = req
    /\ cashFlowResult' = Calculated(req)
    /\ UNCHANGED <<now, routerVars, repoVars, timedVars, deployVars, cdkVars>>

(***************************************************************************)
(*              Part IV - health reporter and bounded requests             *)
(***************************************************************************)

\* The timeout every function is created with, in seconds.
LAMBDA_TIMEOUT_SECONDS == 30

\* The short timeout of the connectivity probe, in seconds.
ProbeTimeoutSeconds == 2

CallKinds == {"probe", "operation"}

\* The time bound of a store call.
Deadline(kind) ==
    IF kind = "probe" THEN ProbeTimeoutSeconds ELSE LAMBDA_TIMEOUT_SECONDS

\* A bound that is never reached (for comparison).
NeverExpired(kind, elapsed) == FALSE

\* The store call has used up its time.
Expired(kind, elapsed) == elapsed >= Deadline(kind)

NoReply == [statusCode |-> 0]

\* The health report: degraded unless the probe was answered.
HealthReply(outcome, t) ==
    [statusCode |-> 200,
     body |-> [status |-> IF outcome = "answered" THEN "healthy"
                                                  ELSE "degraded",
               timestamp |-> t]]

\* The response of a repository operation: its result, Internal for a store
\* failure, Timeout for a store call that exceeded its bound.
OperationReply(outcome) ==
    CASE outcome = "answered" -> [statusCode |-> 200, body |-> [ok |-> TRUE]]
      [] outcome = "failed" ->
            [statusCode |-> 500, body |-> [error |-> [kind |-> "Internal"]]]
      [] outcome = "expired" ->
            [statusCode |-> 504, body |-> [error |-> [kind |-> "Timeout"]]]

ReplyTo(kind, outcome, t) ==
    IF kind = "probe" THEN HealthReply(outcome, t)
                      ELSE OperationReply(outcome)

TimedInit ==
    /\ callKind = "none"
    /\ callPhase = "idle"
    /\ callOutcome = "none"
    /\ callElapsed = 0
    /\ reply = NoReply

\* A request arrives (GET /health, or an operation on the repository) and
\* its handler calls the store.
StartRequest(kind) ==
    /\ callPhase \in {"idle", "responded"}
    /\ callKind' = kind
    /\ callPhase' = "pending"
    /\ callOutcome' = "none"
    /\ callElapsed' = 0
    /\ reply' = NoReply
    /\ UNCHANGED <<now, routerVars, repoVars, engineVars, deployVars, cdkVars>>

\* The store answers the call, or fails it; it may also never do either.
StoreAnswers(outcome) ==
    /\ callPhase = "pending"
    /\ ~Expired(callKind, callElapsed)
    /\ callOutcome' = outcome
    /\ callPhase' = "done"
    /\ UNCHANGED <<now, routerVars, repoVars, engineVars, deployVars, cdkVars, callKind,
                   callElapsed, reply>>

\* A second passes while the call is pending.
SecondPasses ==
    /\ callPhase = "pending"
    /\ callElapsed < Deadline(callKind)
    /\ callElapsed' = callElapsed + 1
    /\ UNCHANGED <<now, routerVars, repoVars, engineVars, deployVars, cdkVars, callKind,
                   callPhase, callOutcome, reply>>

\* The call exceeded its bound: it is cancelled where it waits.
Expire ==
    /\ callPhase = "pending"
    /\ Expired(callKind, callElapsed)
    /\ callOutcome' = "expired"
    /\ callPhase' = "done"
    /\ UNCHANGED <<now, routerVars, repoVars, engineVars, deployVars, cdkVars, callKind,
                   callElapsed, reply>>

\* The handler turns the outcome of the call into the response.
Respond ==
    /\ callPhase = "done"
    /\ reply' = ReplyTo(callKind, callOutcome, now)
    /\ callPhase' = "responded"
    /\ UNCHANGED <<now, routerVars, repoVars, engineVars, deployVars, cdkVars, callKind,
                   callOutcome, callElapsed>>

(***************************************************************************)
(*                     Part V - the deployment script                      *)
(***************************************************************************)

\* The words of a command line: the options, the names an -e is followed by,
\* and a word the script does not know.
Words == {"-e", "-t", "--skip-tests", "-y", "-h", "--bogus",
          "dev", "staging", "prod", "qa"}

\* The command lines: every list of at most MaxArguments words.
CommandLines ==
    UNION { [1..n -> Words] : n \in 0..MaxArguments }

\* "# Default values"
Defaults ==
    [ENVIRONMENT |-> "dev", SKIP_TESTS |-> "false", AUTO_APPROVE |-> "false",
     exit |-> "none"]

\* "# Parse command line arguments": the while loop over $1, with its shifts.
\* shift 2 fails when -e is the last word, which under set -e ends the run.
RECURSIVE ParseLoop(_, _)
ParseLoop(args, sh) ==
    IF args = << >> THEN sh
    ELSE CASE Head(args) \in {"-e", "--environment"} ->
                IF Len(args) >= 2
                THEN ParseLoop(SubSeq(args, 3, Len(args)),
                               [sh EXCEPT !.ENVIRONMENT = args[2]])
                ELSE [sh EXCEPT !.ENVIRONMENT = "", !.exit = "exit1"]
           [] Head(args) \in {"-t", "--skip-tests"} ->
                ParseLoop(Tail(args), [sh EXCEPT !.SKIP_TESTS = "true"])
           [] Head(args) \in {"-y", "--auto-approve"} ->
                ParseLoop(Tail(args), [sh EXCEPT !.AUTO_APPROVE = "true"])
           [] Head(args) \in {"-h", "--help"} -> [sh EXCEPT !.exit = "exit0"]
           [] OTHER -> [sh EXCEPT !.exit = "exit1"]

\* A validation that takes every name (for comparison).
AnyEnvironment(name) == TRUE

\* [[ "$ENVIRONMENT" =~ ^(dev|staging|prod)$ ]]
ValidEnvironment(name) == name \in {"dev", "staging", "prod"}

\* The assignments a file .env.$ENVIRONMENT makes, when there is one.
EnvFiles == { [x \in {} |-> ""], [LOG_LEVEL |-> "INFO"],
              [AUTO_APPROVE |-> "true"], [SKIP_TESTS |-> "true"] }

\* What the operator types at the prompt, as a sequence of characters, or the
\* end of the input.
Answers ==
    [eof : {FALSE},
     text : { <<"y", "e", "s">>, <<"Y", "E", "S">>, <<"n", "o">>, <<"y">>,
              << >>, <<"y", "e", "s", "!">> }]
      \cup {[eof |-> TRUE, text |-> << >>]}

\* A prompt that takes any answer that begins with y (for comparison).
BeginsWithY(text) == Len(text) >= 1 /\ text[1] \in {"y", "Y"}

\* $REPLY =~ ^[Yy][Ee][Ss]$
YesReply(text) ==
    /\ Len(text) = 3
    /\ text[1] \in {"y", "Y"}
    /\ text[2] \in {"e", "E"}
    /\ text[3] \in {"s", "S"}

DeployInit ==
    /\ dpc = "shell"
    /\ arguments = << >>
    /\ ENVIRONMENT = "dev"
    /\ SKIP_TESTS = "false"
    /\ AUTO_APPROVE = "false"
    /\ REPLY = << >>
    /\ commands = {}

\* The script is started with a command line: the defaults and the loop over
\* the arguments; -h and an unknown option end the run at once.
ParseArguments(line) ==
    /\ dpc = "shell"
    /\ arguments' = line
    /\ LET sh == ParseLoop(line, Defaults)
       IN /\ ENVIRONMENT' = sh.ENVIRONMENT
          /\ SKIP_TESTS' = sh.SKIP_TESTS
          /\ AUTO_APPROVE' = sh.AUTO_APPROVE
          /\ dpc' = IF sh.exit = "none" THEN "validate" ELSE sh.exit
    /\ REPLY' = << >>
    /\ commands' = {}
    /\ UNCHANGED <<now, routerVars, repoVars, engineVars, timedVars, cdkVars>>

\* "# Validate environment"
ValidateEnvironment ==
    /\ dpc = "validate"
    /\ dpc' = IF ValidEnvironment(ENVIRONMENT) THEN "prerequisites" ELSE "exit1"
    /\ UNCHANGED <<now, routerVars, repoVars, engineVars, timedVars, cdkVars, arguments,
                   ENVIRONMENT, SKIP_TESTS, AUTO_APPROVE, REPLY, commands>>

\* "# Check prerequisites": command -v aws, command -v cdk, then the
\* credentials with aws sts get-caller-identity; the account and the region
\* are read with aws once all three are met.
CheckPrerequisites(missing) ==
    /\ dpc = "prerequisites"
    /\ commands' =
          CASE missing \in {"aws", "cdk"} -> commands
            [] missing = "credentials" ->
                 commands \cup {"aws sts get-caller-identity"}
            [] OTHER -> commands \cup {"aws sts get-caller-identity",
                                       "aws configure get region"}
    /\ dpc' = IF missing = "nothing" THEN "env_file" ELSE "exit1"
    /\ UNCHANGED <<now, routerVars, repoVars, engineVars, timedVars, cdkVars, arguments,
                   ENVIRONMENT, SKIP_TESTS, AUTO_APPROVE, REPLY>>

\* "# Load environment-specific variables if they exist": every assignment
\* of the file is exported.
LoadEnvFile(file) ==
    /\ dpc = "env_file"
    /\ AUTO_APPROVE' = IF "AUTO_APPROVE" \in DOMAIN file
                       THEN file["AUTO_APPROVE"] ELSE AUTO_APPROVE
    /\ SKIP_TESTS' = IF "SKIP_TESTS" \in DOMAIN file
                     THEN file["SKIP_TESTS"] ELSE SKIP_TESTS
    /\ dpc' = "tests"
    /\ UNCHANGED <<now, routerVars, repoVars, engineVars, timedVars, cdkVars, arguments,
                   ENVIRONMENT, REPLY, commands>>

\* "# Run tests (unless skipped)": a failed pip install ends the run under
\* set -e; pytest may be missing, which is only warned about.
RunTests(outcome) ==
    /\ dpc = "tests"
    /\ CASE SKIP_TESTS = "true" ->
              /\ UNCHANGED commands
              /\ dpc' = "bootstrap"
         [] SKIP_TESTS # "true" /\ outcome = "pip failed" ->
              /\ UNCHANGED commands
              /\ dpc' = "exit1"
         [] SKIP_TESTS # "true" /\ outcome = "no pytest" ->
              /\ UNCHANGED commands
              /\ dpc' = "bootstrap"
         [] OTHER ->
              /\ commands' = commands \cup {"pytest"}
              /\ dpc' = IF outcome = "passed" THEN "bootstrap" ELSE "exit1"
    /\ UNCHANGED <<now, routerVars, repoVars, engineVars, timedVars, cdkVars, arguments,
                   ENVIRONMENT, SKIP_TESTS, AUTO_APPROVE, REPLY>>

\* "# CDK Bootstrap (if needed)": cdk list tells whether it is; under set -e
\* a failed bootstrap ends the run.
Bootstrap(needed, succeeded) ==
    /\ dpc = "bootstrap"
    /\ commands' = commands \cup {"cdk list"}
                      \cup IF needed THEN {"cdk bootstrap"} ELSE {}
    /\ dpc' = IF needed /\ ~succeeded THEN "exit1" ELSE "synth"
    /\ UNCHANGED <<now, routerVars, repoVars, engineVars, timedVars, cdkVars, arguments,
                   ENVIRONMENT, SKIP_TESTS, AUTO_APPROVE, REPLY>>

\* "# CDK Synthesize"
Synthesize(succeeded) ==
    /\ dpc = "synth"
    /\ commands' = commands \cup {"cdk synth"}
    /\ dpc' = IF succeeded THEN "diff" ELSE "exit1"
    /\ UNCHANGED <<now, routerVars, repoVars, engineVars, timedVars, cdkVars, arguments,
                   ENVIRONMENT, SKIP_TESTS, AUTO_APPROVE, REPLY>>

\* "# Show diff (for non-prod environments or if auto-approve is not set)"
ShowDiff ==
    /\ dpc = "diff"
    /\ commands' = IF ENVIRONMENT # "prod" \/ AUTO_APPROVE # "true"
                   THEN commands \cup {"cdk diff"} ELSE commands
    /\ dpc' = "confirm"
    /\ UNCHANGED <<now, routerVars, repoVars, engineVars, timedVars, cdkVars, arguments,
                   ENVIRONMENT, SKIP_TESTS, AUTO_APPROVE, REPLY>>

\* "# Confirm deployment for production": read fails at the end of the
\* input, which under set -e ends the run.
ConfirmProduction(answer) ==
    /\ dpc = "confirm"
    /\ IF ENVIRONMENT = "prod" /\ AUTO_APPROVE # "true"
       THEN /\ commands' = commands \cup {"read"}
            /\ REPLY' = answer.text
            /\ dpc' = IF answer.eof THEN "exit1"
                      ELSE IF ~YesReply(answer.text) THEN "exit0"
                      ELSE "deploy"
       ELSE /\ UNCHANGED <<commands, REPLY>>
            /\ dpc' = "deploy"
    /\ UNCHANGED <<now, routerVars, repoVars, engineVars, timedVars, cdkVars, arguments,
                   ENVIRONMENT, SKIP_TESTS, AUTO_APPROVE>>

\* "# Deploy": cdk deploy --all, then "# Show outputs" for every stack.
Deploy(succeeded) ==
    /\ dpc = "deploy"
    /\ commands' = commands \cup {"cdk deploy"}
                      \cup IF succeeded
                           THEN {"aws cloudformation describe-stacks"}
                           ELSE {}
    /\ dpc' = IF succeeded THEN "done" ELSE "exit1"
    /\ UNCHANGED <<now, routerVars, repoVars, engineVars, timedVars, cdkVars, arguments,
                   ENVIRONMENT, SKIP_TESTS, AUTO_APPROVE, REPLY>>

(***************************************************************************)
(*                        Part VI - the CDK app                            *)
(***************************************************************************)

\* What tryGetContext and process.env give for a name that is not set.
Undefined == "(undefined)"

\* The values the context and the variable ENVIRONMENT are started with.
EnvironmentInputs == {Undefined, "", "dev", "staging", "prod", "qa"}

\* What the file system holds at the lambda-layer path.
LayerDirectories == {"missing", "without python", "complete"}

NoConfig == [environment |-> Undefined]
NoTable == [tableName |-> Undefined]
NoError == ""

\* JavaScript a || b: b when a is undefined or the empty string.
Or(a, b) == IF a \in {Undefined, ""} THEN b ELSE a

\* A resolution that asks the variable before the context (for comparison).
ResolveVariableFirst(ctx, env) == Or(Or(env, ctx), "dev")

\* app.node.tryGetContext('environment') || process.env.ENVIRONMENT || 'dev'
Resolve(ctx, env) == Or(Or(ctx, env), "dev")

\* The names getEnvironmentConfig has a case for.
KnownEnvironments == {"dev", "staging", "prod"}

\* getEnvironmentConfig: the base configuration and the case of the name.
EnvironmentConfigOf(name) ==
    [environment |-> name,
     region |-> "ap-northeast-1",
     lambdaRuntime |-> "python3.12",
     dynamoDbTablePrefix |-> "real-estate-observability-" \o name,
     apiStage |-> name,
     logLevel |-> CASE name = "dev" -> "DEBUG"
                    [] name = "staging" -> "INFO"
                    [] OTHER -> "WARN",
     enableXRay |-> FALSE,
     enableCustomMetrics |-> TRUE,
     corsOrigins |-> CASE name = "dev" -> <<"*">>
                       [] name = "staging" -> <<"https://staging.example.com">>
                       [] OTHER -> <<"https://example.com">>]

\* A check that finds every directory (for comparison).
ExistsAlways(directory, entry) == TRUE

\* fs.existsSync of the lambda-layer path and of its python subdirectory.
ExistsSync(directory, entry) ==
    CASE entry = "lambda-layer" -> directory # "missing"
      [] entry = "lambda-layer/python" -> directory = "complete"

\* The handler of each function of the API stack.
FunctionHandler ==
    [HealthCheckFunction |-> "handlers.api.health.health_check.handler",
     CalculateCashFlowFunction |-> "handlers.api.calculate.cash_flow.handler"]

\* The function a Lambda integration of the API stack is made from.
IntegrationFunction ==
    [healthCheckIntegration |-> "HealthCheckFunction",
     calculateCashFlowIntegration |-> "CalculateCashFlowFunction"]

\* A policy that retains every table whose environment looks like production
\* (for comparison).
RemovalPolicyOfProduction(name) ==
    IF name \in {"prod", "PROD", "production"} THEN "RETAIN" ELSE "DESTROY"

\* config.environment === 'prod' ? RemovalPolicy.RETAIN : RemovalPolicy.DESTROY
RemovalPolicyOf(name) == IF name = "prod" THEN "RETAIN" ELSE "DESTROY"

\* The configurations a DatabaseStack is constructed with: those of
\* getEnvironmentConfig, and others with any environment name and prefix.
DatabaseConfigs ==
    { EnvironmentConfigOf(name) : name \in KnownEnvironments }
      \cup { [EnvironmentConfigOf("dev") EXCEPT !.environment = name,
                                               !.dynamoDbTablePrefix = prefix] :
                name \in {"dev", "prod", "PROD", "production", "test", ""},
                prefix \in {"real-estate-observability-prod", "mytables"} }

CdkInit ==
    /\ appPc = "node"
    /\ contextValue = Undefined
    /\ processEnv = Undefined
    /\ layerDirectory = "complete"
    /\ environment = Undefined
    /\ config = NoConfig
    /\ stacks = {}
    /\ constructs = {}
    /\ routes = << >>
    /\ thrown = NoError
    /\ propertiesTable = NoTable

\* The app is started: cdk passes the context, dotenv and the shell the
\* variable, and the file system is what it is.  const app = new cdk.App()
StartApp(ctx, env, directory) ==
    /\ appPc = "node"
    /\ contextValue' = ctx
    /\ processEnv' = env
    /\ layerDirectory' = directory
    /\ appPc' = "app"
    /\ UNCHANGED <<now, routerVars, repoVars, engineVars, timedVars, deployVars,
                   environment, config, stacks, constructs, routes, thrown,
                   propertiesTable>>

\* const environment = ...
ResolveEnvironment ==
    /\ appPc = "app"
    /\ environment' = Resolve(contextValue, processEnv)
    /\ appPc' = "resolved"
    /\ UNCHANGED <<now, routerVars, repoVars, engineVars, timedVars, deployVars,
                   contextValue, processEnv, layerDirectory, config, stacks,
                   constructs, routes, thrown, propertiesTable>>

\* const config = getEnvironmentConfig(environment): the default case throws.
GetEnvironmentConfig ==
    /\ appPc = "resolved"
    /\ IF environment \in KnownEnvironments
       THEN /\ config' = EnvironmentConfigOf(environment)
            /\ appPc' = "configured"
            /\ UNCHANGED thrown
       ELSE /\ thrown' = "Unknown environment: " \o environment
            /\ appPc' = "failed"
            /\ UNCHANGED config
    /\ UNCHANGED <<now, routerVars, repoVars, engineVars, timedVars, deployVars,
                   contextValue, processEnv, layerDirectory, environment,
                   stacks, constructs, routes, propertiesTable>>

\* new ApiStack(app, `ApiStack-${config.environment}`, ...): super() and the
\* REST API.
NewApiStack ==
    /\ appPc = "configured"
    /\ stacks' = stacks \cup {[id |-> "ApiStack-" \o config.environment,
                               config |-> config]}
    /\ constructs' = constructs \cup {"Api"}
    /\ appPc' = "layer"
    /\ UNCHANGED <<now, routerVars, repoVars, engineVars, timedVars, deployVars,
                   contextValue, processEnv, layerDirectory, environment,
                   config, routes, thrown, propertiesTable>>

\* "Create shared dependencies layer": the two checks, each of which throws,
\* then the layer.
CreateLayer ==
    /\ appPc = "layer"
    /\ CASE ~ExistsSync(layerDirectory, "lambda-layer") ->
              /\ thrown' = "Lambda layer directory not found"
              /\ appPc' = "failed"
              /\ UNCHANGED constructs
         [] ExistsSync(layerDirectory, "lambda-layer")
              /\ ~ExistsSync(layerDirectory, "lambda-layer/python") ->
              /\ thrown' = "Lambda layer python subdirectory not found"
              /\ appPc' = "failed"
              /\ UNCHANGED constructs
         [] OTHER ->
              /\ constructs' = constructs \cup {"DependenciesLayer"}
              /\ appPc' = "functions"
              /\ UNCHANGED thrown
    /\ UNCHANGED <<now, routerVars, repoVars, engineVars, timedVars, deployVars,
                   contextValue, processEnv, layerDirectory, environment,
                   config, stacks, routes, propertiesTable>>

\* "Health check function", "Calculate cash flow function"
CreateFunctions ==
    /\ appPc = "functions"
    /\ constructs' = constructs \cup DOMAIN FunctionHandler
    /\ appPc' = "routes"
    /\ UNCHANGED <<now, routerVars, repoVars, engineVars, timedVars, deployVars,
                   contextValue, processEnv, layerDirectory, environment,
                   config, stacks, routes, thrown, propertiesTable>>

\* "Create Lambda integrations", "API routes", the request validator and the
\* outputs; the app is synthesized when the constructor returns.
CreateRoutes ==
    /\ appPc = "routes"
    /\ routes' = [pair \in DOMAIN ApiStackIntegration |->
                    FunctionHandler[IntegrationFunction[ApiStackIntegration[pair]]]]
    /\ constructs' = constructs \cup {"RequestValidator", "ApiUrl", "ApiId"}
    /\ appPc' = "synthesized"
    /\ UNCHANGED <<now, routerVars, repoVars, engineVars, timedVars, deployVars,
                   contextValue, processEnv, layerDirectory, environment,
                   config, stacks, thrown, propertiesTable>>

\* new DatabaseStack(scope, id, {config}): "Properties table"
NewDatabaseStack(cfg) ==
    /\ appPc = "node"
    /\ config' = cfg
    /\ propertiesTable' =
          [tableName |-> cfg.dynamoDbTablePrefix \o "-properties",
           partitionKey |-> "id",
           sortKey |-> "createdAt",
           removalPolicy |-> RemovalPolicyOf(cfg.environment)]
    /\ appPc' = "database"
    /\ UNCHANGED <<now, routerVars, repoVars, engineVars, timedVars, deployVars,
                   contextValue, processEnv, layerDirectory, environment,
                   stacks, constructs, routes, thrown>>

(***************************************************************************)
(*                            Specifications                               *)
(***************************************************************************)

Tick ==
    /\ now < MaxClock
    /\ now' = now + 1
    /\ UNCHANGED <<routerVars, repoVars, otherVars>>

Init ==
    /\ now = 1
    /\ RouterInit
    /\ RepoInit
    /\ EngineInit
    /\ TimedInit
    /\ DeployInit
    /\ CdkInit

HandlerStep == ReadEvent \/ Dispatch \/ RunBranch \/ ReturnNotFound

RouterNext ==
    \/ \E e \in Events : Invoke(e)
    \/ ReadEvent
    \/ Dispatch
    \/ RunBranch
    \/ ReturnNotFound
    \/ Tick

RouterSpec == Init /\ [][RouterNext]_vars

\* The Lambda runtime runs an invoked handler until it returns or raises.
RouterFairSpec == RouterSpec /\ WF_vars(HandlerStep)

\* The repository under Create (caller-supplied and generated ids), Update
\* and Get.
RepoNext ==
    \/ \E id \in {1, NoId} : Create(id, Listing)
    \/ \E patch \in Patches : Update(1, patch)
    \/ \E id \in {1} \cup GeneratedIds : Get(id)
    \/ Tick

RepoSpec == Init /\ [][RepoNext]_vars

\* The store behind List calls with a status filter: an active and a sold
\* listing are created, the active one is sold, the status index follows.
StatusListNext ==
    \/ Create(1, Listing)
    \/ Create(2, SoldListing)
    \/ Update(1, [status |-> "sold"])
    \/ ReplicateStatusIndex
    \/ Tick

StatusListSpec == Init /\ [][StatusListNext]_vars

\* The store behind List calls with every combination of filters.
FilterNext ==
    \/ \E id \in CallerIds, attrs \in Listings : Create(id, attrs)
    \/ \E patch \in {[status |-> "sold"], [price |-> 1]} : Update(1, patch)
    \/ ReplicateStatusIndex
    \/ ReplicateLocationIndex
    \/ Tick

FilterSpec == Init /\ [][FilterNext]_vars

\* The engine called with every request, one after another.
EngineNext ==
    \E req \in CashFlowRequests : CalculateCashFlow(req)

EngineSpec == Init /\ [][EngineNext]_vars

\* Requests that wait for the store, one after another.  Time passes and the
\* handler takes its steps; nothing makes the store answer.
TimedNext ==
    \/ \E kind \in CallKinds : StartRequest(kind)
    \/ \E outcome \in {"answered", "failed"} : StoreAnswers(outcome)
    \/ SecondPasses
    \/ Expire
    \/ Respond
    \/ Tick

TimedSpec == Init /\ [][TimedNext]_vars

TimedFairSpec ==
    TimedSpec /\ WF_vars(SecondPasses) /\ WF_vars(Expire) /\ WF_vars(Respond)

\* A run of deploy.sh, with every command line, every outcome of the
\* commands it calls and every answer of the operator.
DeployNext ==
    \/ \E line \in CommandLines : ParseArguments(line)
    \/ ValidateEnvironment
    \/ \E missing \in {"nothing", "aws", "cdk", "credentials"} :
          CheckPrerequisites(missing)
    \/ \E file \in EnvFiles : LoadEnvFile(file)
    \/ \E outcome \in {"passed", "failed", "no pytest", "pip failed"} :
          RunTests(outcome)
    \/ \E needed \in BOOLEAN, succeeded \in BOOLEAN :
          Bootstrap(needed, succeeded)
    \/ \E succeeded \in BOOLEAN : Synthesize(succeeded)
    \/ ShowDiff
    \/ \E answer \in Answers : ConfirmProduction(answer)
    \/ \E succeeded \in BOOLEAN : Deploy(succeeded)

DeploySpec == Init /\ [][DeployNext]_vars

\* A run of the CDK app with every context value, every value of the
\* variable and every state of the layer directory; or the construction of
\* a DatabaseStack with every configuration.
CdkNext ==
    \/ \E ctx \in EnvironmentInputs, env \in EnvironmentInputs,
          directory \in LayerDirectories : StartApp(ctx, env, directory)
    \/ ResolveEnvironment
    \/ GetEnvironmentConfig
    \/ NewApiStack
    \/ CreateLayer
    \/ CreateFunctions
    \/ CreateRoutes
    \/ \E cfg \in DatabaseConfigs : NewDatabaseStack(cfg)

CdkSpec == Init /\ [][CdkNext]_vars

\* An unfiltered List followed page by page while items are created.
ScanNext ==
    \/ \E id \in CallerIds \cup {NoId} : Create(id, Listing)
    \/ \E limit \in Limits : ListFirst(NoFilter, limit)
    \/ ListNext
    \/ Tick

ScanSpec == Init /\ [][ScanNext]_vars

(***************************************************************************)
(*                      Claims about the request router                    *)
(***************************************************************************)

WellFormed(e) == "httpMethod" \in DOMAIN e /\ "path" \in DOMAIN e

\* C1: a request (method, path) whose path matches no route of the dispatch
\* table is answered with status 404, and no route handler runs for it.
C1_UnmatchedPathIs404 ==
    (WellFormed(event) /\ event["path"] \notin RoutePaths) =>
        /\ executed = {}
        /\ pc \notin {"root", "health", "properties"}
        /\ pc = "returned" =>
              /\ Len(responses) = 1
              /\ responses[1].statusCode = 404

C1_Witness ==
    /\ pc = "returned"
    /\ WellFormed(event)
    /\ event["httpMethod"] = "GET"
    /\ event["path"] = <<"properties", "p1">>
    /\ Len(responses) = 1
    /\ responses[1].statusCode = 404

\* C2: a request whose path matches a route but whose method is not
\* registered for that path (POST /health, DELETE /properties) is answered
\* with status 405, not 404.
C2_MethodMismatchIs405 ==
    (/\ pc = "returned"
     /\ path \in RoutePaths
     /\ <<method, path>> \notin RegisteredMethods) =>
        /\ Len(responses) = 1
        /\ responses[1].statusCode = 405

\* C3: every inbound event, a malformed one included, gets exactly one
\* response: the handler never ends with an uncaught failure and no
\* response, and never returns a success body after a failure.
C3_OneResponsePerEvent ==
    /\ pc # "raised"
    /\ pc = "returned" => Len(responses) = 1
    /\ \A i \in 1..Len(responses) :
          responses[i].statusCode = 200 => "Failed" \notin Range(phases)

\* C4: each request follows Received -> Validating -> (Rejected | Executing)
\* -> Responding: Executing is reached only after Validating, a Rejected
\* request never reaches Executing, and every request eventually reaches
\* Responding.
C4_RequestStateMachine ==
    /\ [](\A i \in 1..Len(phases) :
            phases[i] = "Executing" =>
                \E j \in 1..(i - 1) : phases[j] = "Validating")
    /\ [](\A i \in 1..Len(phases) : \A j \in (i + 1)..Len(phases) :
            phases[i] = "Rejected" => phases[j] # "Executing")
    /\ ((pc = "entry") ~> (pc = "returned"))

(***************************************************************************)
(*                       Claims about the repository                       *)
(***************************************************************************)

C6_TimestampsAndKeyStable ==
    /\ [](\A i \in table : i.updatedAt >= i.createdAt)
    /\ [][Keys(table) \subseteq Keys(table')]_vars

C6_Witness ==
    /\ lastOp.op = "Update"
    /\ lastOp.ok
    /\ lastOp.item \in table
    /\ lastOp.item.updatedAt > lastOp.item.createdAt
    /\ Cardinality(table) >= 2

CursorsFor(filter) == {NoCursor} \cup { CursorOf(i) : i \in Source(filter) }

NonIncreasingUpdatedAt(items) ==
    \A n \in 1..(Len(items) - 1) : items[n].updatedAt >= items[n + 1].updatedAt

AscendingPrice(items) ==
    \A n \in 1..(Len(items) - 1) : items[n].price <= items[n + 1].price

AscendingCreatedAt(items) ==
    \A n \in 1..(Len(items) - 1) : items[n].createdAt <= items[n + 1].createdAt

AllMatch(items, filter) ==
    \A n \in 1..Len(items) : Matches(items[n], filter)

\* C8: every item a List call with a status filter returns has that status,
\* and the returned items are in non-increasing order of updatedAt.
C8_StatusFilterOrdered ==
    \A filter \in Filters : \A limit \in Limits :
        filter.status # "" =>
            \A cursor \in CursorsFor(filter) :
                LET page == FetchPage(filter, limit, cursor)
                IN /\ \A n \in 1..Len(page.items) :
                         page.items[n].status = filter.status
                   /\ NonIncreasingUpdatedAt(page.items)

\* A status query returns two items of different age, the newer of them sold
\* by an Update after its creation.
C8_Witness ==
    /\ LET page == FetchPage([NoFilter EXCEPT !.status = "sold"],
                             MaxLimit, NoCursor)
       IN /\ Len(page.items) = 2
          /\ page.items[1].updatedAt > page.items[2].updatedAt
          /\ page.items[1].updatedAt > page.items[1].createdAt

Returned == { <<p, n>> : p \in 1..Len(session.pages), n \in 1..MaxItems }

TimesReturned(k) ==
    Cardinality({ pn \in Returned :
                    /\ pn[2] <= Len(session.pages[pn[1]])
                    /\ KeyOf(session.pages[pn[1]][pn[2]]) = k })

OffendingFields(b) ==
    (IF "price" \in DOMAIN b /\ b.price < 0
     THEN {[field |-> "price", reason |-> "OutOfRange"]} ELSE {})
    \cup
    (IF "status" \in DOMAIN b /\ b.status \notin {"active", "pending", "sold", "archived"}
     THEN {[field |-> "status", reason |-> "InvalidEnum"]} ELSE {})

C12_NegativePriceRejected ==
    (/\ pc = "returned"
     /\ "body" \in DOMAIN event
     /\ method = "POST"
     /\ path = PropertiesPath
     /\ "price" \in DOMAIN event.body
     /\ event.body.price < 0) =>
        /\ Len(responses) = 1
        /\ responses[1].statusCode = 400
        /\ Range(responses[1].body.error.fields) = OffendingFields(event.body)
        /\ lastOp = NoOp

\* C15: every response, for every request method and path and for success
\* and error alike, has a JSON body and the header Content-Type:
\* application/json.
C15_ResponsesAreJson ==
    \A n \in 1..Len(responses) :
        /\ "body" \in DOMAIN responses[n]
        /\ "headers" \in DOMAIN responses[n]
        /\ "ContentType" \in DOMAIN responses[n].headers
        /\ responses[n].headers.ContentType = "application/json"

C15_Witness ==
    /\ pc = "returned"
    /\ method = "DELETE"
    /\ path = HealthPath
    /\ Len(responses) = 1
    /\ responses[1].statusCode = 404
    /\ responses[1].headers.ContentType = "application/json"
    /\ invocations = MaxInvocations

\* C16: every error response body is the envelope {error: {kind, message,
\* fields?}}: the value of error is an object with a kind and a message, also
\* for the 404 of an unmatched route.
C16_ErrorEnvelope ==
    \A n \in 1..Len(responses) :
        responses[n].statusCode >= 400 =>
            /\ "error" \in DOMAIN responses[n].body
            /\ responses[n].body.error.json = "object"
            /\ {"kind", "message"} \subseteq DOMAIN responses[n].body.error.value

\* C17: each of the five (method, path) pairs of the HTTP surface has its
\* own handler in the dispatch table and none is answered as an unmatched
\* route; GET / answers with a welcome message and a timestamp, GET
\* /properties with {items, nextCursor?}.
HttpSurface ==
    { <<"GET", RootPath>>, <<"GET", HealthPath>>, <<"GET", PropertiesPath>>,
      <<"POST", PropertiesPath>>,
      <<"POST", <<"api", "v1", "calculate", "cash-flow">> >> }

C17_SurfaceIsRouted ==
    (pc = "returned" /\ <<method, path>> \in HttpSurface) =>
        /\ Len(responses) = 1
        /\ responses[1].statusCode # 404
        /\ <<method, path>> = <<"GET", RootPath>> =>
              {"message", "timestamp"} \subseteq DOMAIN responses[1].body
        /\ <<method, path>> = <<"GET", PropertiesPath>> =>
              "items" \in DOMAIN responses[1].body
        /\ \A other \in HttpSurface \ {<<method, path>>} :
              Route(method, path) # Route(other[1], other[2])
        /\ <<method, path>> \in DOMAIN ApiStackIntegration
        /\ \A other \in DOMAIN ApiStackIntegration \ {<<method, path>>} :
              ApiStackIntegration[other] # ApiStackIntegration[<<method, path>>]

(***************************************************************************)
(*                    Claims about the cash-flow engine                    *)
(***************************************************************************)

\* C13: for every valid CashFlowRequest with interest rate 0 the monthly
\* mortgage payment equals principal / term, principal being purchase price
\* minus down payment, and nothing is divided by zero; a result returned
\* carries that payment, rounded to two decimals at the output.
C13_ZeroRatePayment ==
    (ValidRequest(cashFlowRequest) /\ cashFlowRequest.interestRate[1] = 0) =>
        LET principal == cashFlowRequest.purchasePrice
                           - cashFlowRequest.downPayment
            term == cashFlowRequest.loanTerm
            payment == MonthlyPayment(cashFlowRequest)
        IN /\ IsFinite(payment)
           /\ payment[1] * term = principal * payment[2]
           /\ cashFlowResult.kind = "CashFlowResult" =>
                 /\ IsFinite(cashFlowResult.monthlyPayment)
                 /\ cashFlowResult.monthlyPayment[1]
                       = (200 * principal + term) \div (2 * term)
                 /\ cashFlowResult.monthlyPayment[2] = 100

C13_Witness ==
    /\ ValidRequest(cashFlowRequest)
    /\ cashFlowRequest.interestRate[1] = 0
    /\ cashFlowRequest.loanTerm = 3
    /\ cashFlowRequest.downPayment = 60
    /\ cashFlowResult.kind = "CashFlowResult"
    /\ cashFlowResult.monthlyPayment = <<8000, 100>>

\* C14: for every CashFlowRequest with a zero denominator (purchase price 0,
\* or down payment + closing costs 0, which the request invariant allows)
\* the engine reports InvalidInput; no result it returns has NaN or Infinity
\* as cap rate or cash-on-cash return.
C14_ZeroDenominatorIsInvalidInput ==
    cashFlowResult # NoResult =>
        /\ (\/ cashFlowRequest.purchasePrice = 0
            \/ cashFlowRequest.downPayment + cashFlowRequest.closingCosts = 0)
              => cashFlowResult = InvalidInput
        /\ cashFlowResult.kind = "CashFlowResult" =>
              /\ IsFinite(cashFlowResult.capRate)
              /\ IsFinite(cashFlowResult.cashOnCash)

C14_Witness ==
    /\ ValidRequest(cashFlowRequest)
    /\ cashFlowRequest.downPayment = 0
    /\ cashFlowRequest.closingCosts = 0
    /\ cashFlowRequest.monthlyRent > 0
    /\ cashFlowResult = InvalidInput

(***************************************************************************)
(*             Claims about the health reporter and time bounds            *)
(***************************************************************************)

IsYes(text) ==
    text \in { <<a, b, c>> : a \in {"y", "Y"}, b \in {"e", "E"},
                             c \in {"s", "S"} }

\* C20, as stated: in every run of deploy.sh with environment prod, cdk
\* deploy is executed only after the operator answered yes to the
\* confirmation prompt.
C20_ProdAlwaysConfirmed ==
    (ENVIRONMENT = "prod" /\ "cdk deploy" \in commands) =>
        /\ "read" \in commands
        /\ IsYes(REPLY)

\* C20, amended: in every run of deploy.sh with environment prod in which
\* AUTO_APPROVE is not true (no -y on the command line, none exported by
\* .env.prod), cdk deploy is executed only after the operator answered yes
\* (in any case of the letters) to the prompt; any other answer ends the run
\* without deploying.
C20_ProdConfirmedUnlessAutoApprove ==
    /\ (ENVIRONMENT = "prod" /\ AUTO_APPROVE # "true"
          /\ "cdk deploy" \in commands) =>
            /\ "read" \in commands
            /\ IsYes(REPLY)
    /\ ("read" \in commands /\ ~IsYes(REPLY)) =>
            /\ "cdk deploy" \notin commands
            /\ dpc \in {"exit0", "exit1"}
    /\ "read" \in commands => ENVIRONMENT = "prod"

C20_Witness ==
    /\ ENVIRONMENT = "prod"
    /\ AUTO_APPROVE = "false"
    /\ "read" \in commands
    /\ REPLY = <<"Y", "E", "S">>
    /\ "cdk deploy" \in commands
    /\ dpc = "done"

\* The places of a command line where an option stands: the first word, and
\* the word after an option and, for -e, after its value.
RECURSIVE OptionPlaces(_, _)
OptionPlaces(args, i) ==
    IF i > Len(args) THEN {}
    ELSE {i} \cup OptionPlaces(args, IF args[i] \in {"-e", "--environment"}
                                     THEN i + 2 ELSE i + 1)

KnownOptions == {"-e", "--environment", "-t", "--skip-tests",
                 "-y", "--auto-approve", "-h", "--help"}

\* Whether the command line holds the option w.
Given(w) == \E i \in OptionPlaces(arguments, 1) : arguments[i] = w

\* C21: unless the run was started with --skip-tests (-t), cdk deploy is
\* reached only after the test suite has run; a failed test run ends the run
\* with exit code 1, so a test suite that ran before cdk deploy has passed.
C21_DeployOnlyAfterTests ==
    ("cdk deploy" \in commands /\ ~Given("-t") /\ ~Given("--skip-tests"))
        => "pytest" \in commands

\* The documented step a command belongs to: 1 prerequisite check, 2 tests,
\* 3 build, 4 bootstrap check, 5 synthesis (with the diff and the prompt that
\* follow it), 6 deploy, 7 output display.
DocumentedStep ==
    [c \in {"aws sts get-caller-identity", "aws configure get region"} |-> 1]
      @@ [c \in {"pytest"} |-> 2]
      @@ [c \in {"npm install", "tsc"} |-> 3]
      @@ [c \in {"cdk list", "cdk bootstrap"} |-> 4]
      @@ [c \in {"cdk synth", "cdk diff", "read"} |-> 5]
      @@ [c \in {"cdk deploy"} |-> 6]
      @@ [c \in {"aws cloudformation describe-stacks"} |-> 7]

\* The documented step the script is about to run at a position.
StepAhead ==
    [prerequisites |-> 1, env_file |-> 2, tests |-> 2, bootstrap |-> 4,
     synth |-> 5, diff |-> 6, confirm |-> 6, deploy |-> 6]

\* No later step has run before an earlier one: at every position, what has
\* been executed belongs to the steps before the one ahead.
StepsInOrder ==
    /\ commands \subseteq DOMAIN DocumentedStep
    /\ dpc \in DOMAIN StepAhead =>
          \A c \in commands : DocumentedStep[c] < StepAhead[dpc]

\* A run that ended with exit code 1 has neither deployed after a failed
\* synthesis nor displayed outputs after a failed deploy.
FailureStopsTheRun ==
    dpc = "exit1" => "aws cloudformation describe-stacks" \notin commands

\* A successful run has checked the prerequisites, built (dependency
\* install and TypeScript compile), checked the bootstrap, synthesized,
\* deployed and displayed the outputs.
AllStepsPerformed ==
    dpc = "done" =>
        /\ "aws sts get-caller-identity" \in commands
        /\ "npm install" \in commands
        /\ "tsc" \in commands
        /\ "cdk list" \in commands
        /\ "cdk synth" \in commands
        /\ "cdk deploy" \in commands
        /\ "aws cloudformation describe-stacks" \in commands

\* C22: every successful run of deploy.sh performs the documented steps
\* (prerequisite check, tests, build, bootstrap check, synthesis, deploy,
\* output display) in that order, no later step runs before an earlier one,
\* and a failed synthesis or deploy ends the run with exit code 1 without
\* the following steps.
C22_DocumentedStepsInOrder ==
    /\ StepsInOrder
    /\ FailureStopsTheRun
    /\ AllStepsPerformed

\* The command line holds an unknown option, or the argument loop left an
\* environment that is not dev, staging or prod.
BadInput ==
    \/ \E i \in OptionPlaces(arguments, 1) : arguments[i] \notin KnownOptions
    \/ ENVIRONMENT \notin {"dev", "staging", "prod"}

\* The command line asks for the usage before any unknown option.
HelpFirst ==
    \E i \in OptionPlaces(arguments, 1) :
        /\ arguments[i] \in {"-h", "--help"}
        /\ \A j \in OptionPlaces(arguments, 1) :
              j < i => arguments[j] \in KnownOptions

\* The argument loop and the validation are behind the script.
Validated == dpc \notin {"shell", "validate"}

\* With no arguments the script leaves the argument loop with the
\* environment dev, tests not skipped and auto-approve off.
NoArgumentsMeansDefaults ==
    (dpc = "validate" /\ arguments = << >>) =>
        /\ ENVIRONMENT = "dev"
        /\ SKIP_TESTS = "false"
        /\ AUTO_APPROVE = "false"

IsSet(v) == v # Undefined /\ v # ""

\* C24: the app takes the environment name from the context value
\* 'environment' first, then from the variable ENVIRONMENT, then 'dev'; for
\* dev, staging and prod it builds exactly one stack, named
\* ApiStack-<environment>, from a configuration whose environment and
\* apiStage are that name; for every other name getEnvironmentConfig throws
\* 'Unknown environment' and no stack is created.
C24_OneStackPerKnownEnvironment ==
    appPc \notin {"node", "app", "database"} =>
        /\ environment = IF IsSet(contextValue) THEN contextValue
                         ELSE IF IsSet(processEnv) THEN processEnv
                         ELSE "dev"
        /\ (environment \in {"dev", "staging", "prod"}
              /\ appPc \notin {"resolved", "configured"}) =>
                /\ Cardinality(stacks) = 1
                /\ \A stack \in stacks :
                      /\ stack.id = "ApiStack-" \o environment
                      /\ stack.config.environment = environment
                      /\ stack.config.apiStage = environment
        /\ (environment \notin {"dev", "staging", "prod"}
              /\ appPc # "resolved") =>
                /\ appPc = "failed"
                /\ thrown = "Unknown environment: " \o environment
                /\ stacks = {}

\* The context says prod, the variable staging: the prod stack is built.
C24_Witness ==
    /\ appPc = "synthesized"
    /\ contextValue = "prod"
    /\ processEnv = "staging"
    /\ stacks = {[id |-> "ApiStack-prod", config |-> EnvironmentConfigOf("prod")]}
    /\ \A stack \in stacks : stack.config.apiStage = "prod"

\* C25: the construction of the ApiStack fails with an error when the
\* lambda-layer directory, or its python subdirectory, does not exist, and
\* then no layer, no function and no route is defined; when both exist,
\* GET /health and GET / are bound to the health-check function and
\* POST /api/v1/calculate/cash-flow to the cash-flow function.
C25_LayerDirectoryGuardsTheStack ==
    /\ (stacks # {} /\ appPc # "layer" /\ layerDirectory # "complete") =>
          /\ appPc = "failed"
          /\ thrown = IF layerDirectory = "missing"
                      THEN "Lambda layer directory not found"
                      ELSE "Lambda layer python subdirectory not found"
          /\ "DependenciesLayer" \notin constructs
          /\ "HealthCheckFunction" \notin constructs
          /\ "CalculateCashFlowFunction" \notin constructs
          /\ routes = << >>
    /\ (stacks # {} /\ layerDirectory = "complete") => appPc # "failed"
    /\ appPc = "synthesized" =>
          /\ layerDirectory = "complete"
          /\ {"DependenciesLayer", "HealthCheckFunction",
               "CalculateCashFlowFunction"} \subseteq constructs
          /\ DOMAIN routes =
                { <<"GET", HealthPath>>, <<"GET", RootPath>>,
                  <<"POST", <<"api", "v1", "calculate", "cash-flow">> >> }
          /\ routes[<<"GET", HealthPath>>] =
                "handlers.api.health.health_check.handler"
          /\ routes[<<"GET", RootPath>>] =
                "handlers.api.health.health_check.handler"
          /\ routes[<<"POST", <<"api", "v1", "calculate", "cash-flow">> >>] =
                "handlers.api.calculate.cash_flow.handler"

\* The layer directory is there without its python subdirectory: the
\* construction has failed after the REST API was defined.
C25_Witness ==
    /\ appPc = "failed"
    /\ layerDirectory = "without python"
    /\ stacks # {}
    /\ "Api" \in constructs
    /\ thrown = "Lambda layer python subdirectory not found"

\* C26: the properties table is retained on stack removal if and only if
\* the configured environment is exactly 'prod', for every other name it is
\* destroyed with the stack, and its name is always
\* <dynamoDbTablePrefix>-properties.
C26_TableRetainedOnlyInProd ==
    appPc = "database" =>
        /\ propertiesTable.removalPolicy = "RETAIN" <=> config.environment = "prod"
        /\ config.environment # "prod" => propertiesTable.removalPolicy = "DESTROY"
        /\ propertiesTable.tableName = config.dynamoDbTablePrefix \o "-properties"

\* The table of the prod configuration is retained.
C26_Witness ==
    /\ appPc = "database"
    /\ config = EnvironmentConfigOf("prod")
    /\ propertiesTable.removalPolicy = "RETAIN"
    /\ propertiesTable.tableName = "real-estate-observability-prod-properties"

=============================================================================
